---- MODULE Spec2Model ----
(***************************************************************************)
(* A model of cc-workbench (src/src/main.rs): the engine loop (run_app),   *)
(* its key handlers, the PTY reader thread, the snapshot worker thread,    *)
(* and the SnapshotManager operations over the bare git store.             *)
(*                                                                         *)
(* Conventions.                                                            *)
(*  - Option<T> is a sequence of length at most one: None = <<>>,          *)
(*    Some(x) = <<x>>.                                                     *)
(*  - A String is a sequence of characters; a character is its code point. *)
(*  - A tree (workspace, index, committed tree, backup directory) is a     *)
(*    function from Files to a content, 0 meaning "no such file".  The     *)
(*    data directory .cc-workbench is not among Files: every git command   *)
(*    of the program excludes it or never lists it.                        *)
(*  - A commit digest is the position of the commit in `commits`.          *)
(***************************************************************************)
EXTENDS Integers, Sequences, FiniteSets, TLC

(***************************************************************************)
(* Bounds of the model.                                                    *)
(***************************************************************************)
MaxPrompts == 2      \* prompts submitted in one session
MaxChunks == 2       \* output chunks the PTY reader forwards
MaxInput == 1        \* characters held in the input accumulator
MaxRestores == 1     \* restores confirmed in one session
MaxAppends == 3      \* chunks appended to a drawn line buffer
MaxLen == 4          \* characters of a string strip_ansi is applied to
MaxCount == 63       \* every text of at most this many characters is estimated
MaxResizes == 2      \* times the terminal window is resized
MaxPageUps == 2      \* pages the user scrolls up from the last line

\* The workspace's paths.  "u" stands for a path with a byte that git writes
\* quoted (a non-ASCII byte, a control character, '"' or '\'), such as
\* "caf\303\251.txt".
Files == {"f", "g", "u"}
FileSeq == <<"f", "g", "u">>     \* Files in git's (sorted) output order
Unusual == {"u"}
Contents == {1, 2}
Trees == [Files -> {0} \cup Contents]
EmptyTree == [p \in Files |-> 0]

None == <<>>
Some(x) == <<x>>
IsSome(o) == Len(o) = 1
Unwrap(o) == o[1]

Min(a, b) == IF a <= b THEN a ELSE b
SatSub(a, b) == IF a >= b THEN a - b ELSE 0      \* usize::saturating_sub

(***************************************************************************)
(* Characters (code points) the program names.                             *)
(***************************************************************************)
ESC == 27            \* '\u{1b}'
LBRACKET == 91       \* '['
AT == 64             \* '@'
TILDE == 126         \* '~'
NL == 10             \* '\n'
CR == 13             \* '\r'
DEL == 127           \* 0x7f
SPACE == 32
max_lines == 5000

Ch(s) == CASE s = "a" -> 97 [] s = "d" -> 100 [] s = "n" -> 110
           [] s = "q" -> 113 [] s = "r" -> 114 [] s = "y" -> 121
           [] s = " " -> 32 [] s = "A" -> 65 [] s = "B" -> 66
           [] s = "C" -> 67 [] s = "D" -> 68 [] s = "m" -> 109

(***************************************************************************)
(* strip_ansi: ESC [ ... up to and including a byte in '@'..='~' is        *)
(* dropped; a lone ESC is dropped; everything else passes.                 *)
(***************************************************************************)
RECURSIVE SkipCsi(_)
SkipCsi(s) ==
    IF s = <<>> THEN <<>>
    ELSE IF Head(s) >= AT /\ Head(s) <= TILDE THEN Tail(s)
    ELSE SkipCsi(Tail(s))

RECURSIVE PushNextMutantStripAnsi(_)
PushNextMutantStripAnsi(input) ==
    \* after an ESC that starts no CSI, the next character is pushed unread
    IF input = <<>> THEN <<>>
    ELSE IF Head(input) = ESC
         THEN IF Tail(input) # <<>> /\ Head(Tail(input)) = LBRACKET
              THEN PushNextMutantStripAnsi(SkipCsi(Tail(Tail(input))))
              ELSE IF Tail(input) = <<>> THEN <<>>
              ELSE <<Head(Tail(input))>>
                       \o PushNextMutantStripAnsi(Tail(Tail(input)))
         ELSE <<Head(input)>> \o PushNextMutantStripAnsi(Tail(input))

RECURSIVE strip_ansi(_)
strip_ansi(input) ==
    IF input = <<>> THEN <<>>
    ELSE IF Head(input) = ESC
         THEN IF Tail(input) # <<>> /\ Head(Tail(input)) = LBRACKET
              THEN strip_ansi(SkipCsi(Tail(Tail(input))))
              ELSE strip_ansi(Tail(input))
         ELSE <<Head(input)>> \o strip_ansi(Tail(input))

(***************************************************************************)
(* append_output_lines                                                     *)
(***************************************************************************)
RemoveCr(s) == SelectSeq(s, LAMBDA c : c # CR)

\* str::split('\n'): the fragments between the newlines, always at least
\* one.  nls are the positions of the newlines.
SplitNl(s) ==
    LET n == Len(s)
        nls == SelectSeq([i \in 1..n |-> i], LAMBDA i : s[i] = NL)
        k == Len(nls)
    IN  [j \in 1..(k + 1) |->
            SubSeq(s, IF j = 1 THEN 1 ELSE nls[j - 1] + 1,
                      IF j = k + 1 THEN n ELSE nls[j] - 1)]

NewOnlyMutantAppendOutputLines(lines, chunk) ==
    LET parts == SplitNl(RemoveCr(chunk))
        first == Head(parts)
        ext == IF lines # <<>>
               THEN [lines EXCEPT ![Len(lines)] = @ \o first]
               ELSE <<first>>
        all == ext \o Tail(parts)
    IN  IF Len(all) > max_lines THEN Tail(parts) ELSE all
OldestMutantAppendOutputLines(lines, chunk) ==
    LET parts == SplitNl(RemoveCr(chunk))
        first == Head(parts)
        ext == IF lines # <<>>
               THEN [lines EXCEPT ![Len(lines)] = @ \o first]
               ELSE <<first>>
        all == ext \o Tail(parts)
    IN  IF Len(all) > max_lines THEN SubSeq(all, 1, max_lines) ELSE all
append_output_lines(lines, chunk) ==
    LET parts == SplitNl(RemoveCr(chunk))
        first == Head(parts)
        ext == IF lines # <<>>
               THEN [lines EXCEPT ![Len(lines)] = @ \o first]
               ELSE <<first>>
        all == ext \o Tail(parts)
    IN  IF Len(all) > max_lines
        THEN SubSeq(all, Len(all) - max_lines + 1, Len(all))
        ELSE all

\* str::trim_end over the model's alphabet (SPACE is its only whitespace)
RECURSIVE trim_end(_)
trim_end(s) ==
    IF s # <<>> /\ s[Len(s)] \in {SPACE, NL, CR}
    THEN trim_end(SubSeq(s, 1, Len(s) - 1))
    ELSE s

(***************************************************************************)
(* estimate_tokens.  Here a text is [ch, count]: the character ch repeated *)
(* count times; estimate_tokens reads only text.chars().count().           *)
(***************************************************************************)
Repeat(c, n) == [ch |-> c, count |-> n]

\* f32 holds 24 significant bits: the integers up to 2^24 are exact
F32Exact == 2^24

\* The spacing of the f32 values around n
RECURSIVE Ulp(_)
Ulp(n) == IF n < F32Exact THEN 1 ELSE 2 * Ulp(n \div 2)

\* `n as f32` for a usize n: the nearest f32 value, ties to the even mantissa
AsF32(n) ==
    LET u == Ulp(n)
        q == n \div u
        r == n % u
    IN  IF 2 * r > u \/ (2 * r = u /\ q % 2 = 1) THEN (q + 1) * u ELSE q * u

\* (chars / 4.0).ceil() as u32: the division by 4.0 is exact, and the values
\* of the model are far below u32::MAX, where the cast saturates
estimate_tokens(text) ==
    LET chars == AsF32(text.count)
    IN  (chars + 3) \div 4

(***************************************************************************)
(* The version store, as the git commands of SnapshotManager use it.       *)
(***************************************************************************)
\* git add -A -- . ':(exclude).cc-workbench' : the index becomes the
\* workspace's files outside the data directory.
GitAddAll(w) == w

\* git commit --allow-empty -m "snapshot <idx>": a commit of the index.
GitCommit(cs, idx, message_idx) ==
    Append(cs, [tree |-> idx, message_idx |-> message_idx])

\* git rev-parse HEAD
GitRevParseHead(cs) == Len(cs)

\* git diff <commit> compares the commit's tree with the working tree over
\* the paths of the tree and of the index: a path of the tree that the index
\* no longer has reads as deleted even when a file is there; a path outside
\* the tree is reported only when the index has it and the file exists.
RawStatus(tree, idx, w, p) ==
    IF tree[p] # 0
    THEN IF idx[p] = 0 \/ w[p] = 0 THEN "D"
         ELSE IF w[p] # tree[p] THEN "M" ELSE "-"
    ELSE IF idx[p] # 0 /\ w[p] # 0 THEN "A" ELSE "-"

\* Rename detection (on by default in git diff): a deleted path and an added
\* path with the same content are reported as one line R100 <old> <new>.
RenameTargets(tree, idx, w, p) ==
    {q \in Files : RawStatus(tree, idx, w, q) = "A" /\ w[q] = tree[p]}
RenameSources(tree, idx, w, q) ==
    {p \in Files : RawStatus(tree, idx, w, p) = "D" /\ tree[p] = w[q]}

\* A path as git prints it without -z (core.quotePath is true by default):
\* an unusual path is C-quoted and enclosed in double quotes, which is the
\* name of no workspace file.
GitQuote(p) == IF p \in Unusual THEN "\"u\"" ELSE p

\* One line of `git diff --name-status`, as its tab-separated fields:
\* << status characters, path >> or << status characters, old, new >>.
StatusLine(tree, idx, w, p) ==
    LET raw == RawStatus(tree, idx, w, p) IN
    IF raw = "D" /\ RenameTargets(tree, idx, w, p) # {}
    THEN << <<"R", "1", "0", "0">>, GitQuote(p),
            GitQuote(CHOOSE q \in RenameTargets(tree, idx, w, p) : TRUE) >>
    ELSE IF raw = "A" /\ RenameSources(tree, idx, w, p) # {} THEN <<>>
    ELSE IF raw = "-" THEN <<>>
    ELSE << <<raw>>, GitQuote(p) >>

RECURSIVE StatusLines(_, _, _, _)
StatusLines(tree, idx, w, paths) ==
    IF paths = <<>> THEN <<>>
    ELSE LET l == StatusLine(tree, idx, w, Head(paths)) IN
         (IF l = <<>> THEN <<>> ELSE <<l>>)
             \o StatusLines(tree, idx, w, Tail(paths))

\* SnapshotManager::diff_name_status (the Ok value: the output's lines)
diff_name_status(cs, commit, idx, w) ==
    StatusLines(cs[commit].tree, idx, w, FileSeq)

\* SnapshotManager::diff_preview (the Ok value, as its lines).  The unified
\* diff has text for exactly the paths the name-status list reports; the
\* text of a path is modelled as one line, its content left out.
diff_preview(cs, commit, idx, w) ==
    [i \in 1..Len(StatusLines(cs[commit].tree, idx, w, FileSeq)) |-> "diff"]

\* parse_name_status: first character of the first field, second field
parse_name_status(input) ==
    [i \in 1..Len(input) |-> [status |-> input[i][1][1], path |-> input[i][2]]]

\* git checkout <commit> -- . : every path of the commit's tree is written
\* to the workspace and to the index; other paths are left alone.  With an
\* empty tree the pathspec matches nothing and git fails.
GitCheckoutFails(tree) == \A p \in Files : tree[p] = 0
KeepMutantGitCheckout(tree, t) == [p \in Files |-> IF t[p] # 0 THEN t[p] ELSE tree[p]]
GitCheckout(tree, t) == [p \in Files |-> IF tree[p] # 0 THEN tree[p] ELSE t[p]]

\* self.workspace.join(path).exists()
Exists(w, path) == path \in Files /\ w[path] # 0

\* The backup loop of restore: entries 1..n are copied, in order.
RECURSIVE BackupCopy(_, _, _, _)
BackupCopy(dir, files, w, n) ==
    IF n = 0 THEN dir
    ELSE LET d == BackupCopy(dir, files, w, n - 1)
             e == files[n]
         IN  IF Exists(w, e.path) THEN [d EXCEPT ![e.path] = w[e.path]] ELSE d

\* The entries of `files` whose source exists, i.e. those fs::copy is called for
Copied(files, w) == {i \in 1..Len(files) : Exists(w, files[i].path)}

\* The copies that fail when the copy of the paths in k fails
FailingCopy(files, w, k) == {i \in Copied(files, w) : files[i].path \in k}

\* The removal loop of restore
RemoveAdded(files, w) ==
    [p \in Files |->
        IF \E i \in 1..Len(files) : files[i].status = "A" /\ files[i].path = p
        THEN 0 ELSE w[p]]

(***************************************************************************)
(* SnapshotManager::restore.  r is the store as the engine thread sees it: *)
(* [ws, index, commits, backup]; backup is the sequence of backup          *)
(* subdirectories, one per distinct clock second.  same_second says that   *)
(* Utc::now() formats to the name of the newest existing subdirectory.     *)
(* fail = [at, k] is the step that fails: "none", "diff", "mkdir", "copy"  *)
(* (the copy of the path in k), "checkout" (after writing the paths in k). *)
(* The result is r with ok (the Result is Ok) and at (the step that        *)
(* failed) set.                                                            *)
(***************************************************************************)
BackupMutantRestore(commit, r, same_second, fail) ==
    \* the checkout and the removals first, the backup afterwards
    LET tree == r.commits[commit].tree
        files == parse_name_status(diff_name_status(r.commits, commit, r.index, r.ws))
        done == [r EXCEPT !.ws = RemoveAdded(files, GitCheckout(tree, r.ws)),
                          !.index = GitCheckout(tree, r.index)]
    IN  IF fail.at = "diff" THEN [r EXCEPT !.ok = FALSE, !.at = "diff"]
        ELSE IF GitCheckoutFails(tree) \/ fail.at = "checkout"
        THEN [r EXCEPT !.ok = FALSE, !.at = "checkout"]
        ELSE IF fail.at = "mkdir" THEN [done EXCEPT !.ok = FALSE, !.at = "mkdir"]
        ELSE IF fail.at = "copy" /\ FailingCopy(files, r.ws, fail.k) # {}
        THEN [done EXCEPT !.ok = FALSE, !.at = "copy"]
        ELSE done

restore(commit, r, same_second, fail) ==
    LET tree == r.commits[commit].tree
        files == parse_name_status(diff_name_status(r.commits, commit, r.index, r.ws))
        reuse == same_second /\ r.backup # <<>>
        dirs == IF reuse THEN r.backup ELSE Append(r.backup, EmptyTree)
        d == Len(dirs)
    IN  IF fail.at = "diff" THEN [r EXCEPT !.ok = FALSE, !.at = "diff"]
        ELSE IF fail.at = "mkdir" THEN [r EXCEPT !.ok = FALSE, !.at = "mkdir"]
        ELSE IF fail.at = "copy" /\ FailingCopy(files, r.ws, fail.k) # {}
        THEN LET i == CHOOSE i \in FailingCopy(files, r.ws, fail.k) :
                          \A j \in FailingCopy(files, r.ws, fail.k) : i <= j
             IN  [r EXCEPT !.ok = FALSE, !.at = "copy",
                           !.backup = [dirs EXCEPT ![d] =
                                          BackupCopy(@, files, r.ws, i - 1)]]
        ELSE LET b1 == [dirs EXCEPT ![d] = BackupCopy(@, files, r.ws, Len(files))]
             IN
             IF GitCheckoutFails(tree)
             THEN [r EXCEPT !.ok = FALSE, !.at = "checkout", !.backup = b1]
             ELSE IF fail.at = "checkout"
             THEN \* the checkout stopped after the paths in fail.k
                  [r EXCEPT !.ok = FALSE, !.at = "checkout", !.backup = b1,
                      !.ws = [p \in Files |-> IF p \in fail.k /\ tree[p] # 0
                                              THEN tree[p] ELSE r.ws[p]]]
             ELSE [r EXCEPT !.ok = TRUE, !.backup = b1,
                      !.ws = RemoveAdded(files, GitCheckout(tree, r.ws)),
                      !.index = GitCheckout(tree, r.index)]

(***************************************************************************)
(* Keys.  A key event is [code, ch, mods]: code is "Char" (ch its          *)
(* character) or the name of a KeyCode; mods is "NONE", "SHIFT" or         *)
(* "CONTROL".                                                              *)
(***************************************************************************)
Key(code) == [code |-> code, ch |-> 0, mods |-> "NONE"]
CharKey(c, mods) == [code |-> "Char", ch |-> Ch(c), mods |-> mods]
IsChar(key, c) == key.code = "Char" /\ key.ch = Ch(c)

\* char::to_string().as_bytes(): UTF-8
Utf8(c) == IF c < 128 THEN <<c>> ELSE <<192 + (c \div 64), 128 + (c % 64)>>

(***************************************************************************)
(* The engine thread's handlers.  They act on a record e of everything    *)
(* the engine thread reads or writes:                                      *)
(*   app      struct App (the fields the handlers use)                     *)
(*   db       the session log: [messages, snapshots], sequences of rows    *)
(*   sent     the bytes written to the PTY by the current handler          *)
(*   jobs     the snapshot job channel (sender side)                       *)
(*   uuid     the number of identifiers Uuid::new_v4 has produced          *)
(*   ws, index, commits, backup   the workspace and the store              *)
(*   restored the calls of restore() by this handler: [commit, ok, at,     *)
(*            changed]                                                     *)
(*   git      the git commands run_git has run, and waited for, in this    *)
(*            handler                                                      *)
(*   ret      "false" = Ok(false) / Ok(()), "true" = Ok(true), "err"       *)
(* fail = [at, k] names the one fallible step that fails in this call:     *)
(* "pty", "db", "diff", "mkdir", "copy", "checkout", or "none".            *)
(***************************************************************************)
Err(e) == [e EXCEPT !.ret = "err"]

\* PtyProcess::send_bytes
TwiceMutantSendBytes(e, bytes, fail) ==
    IF fail.at = "pty" THEN Err(e) ELSE [e EXCEPT !.sent = @ \o bytes \o bytes]
send_bytes(e, bytes, fail) ==
    IF fail.at = "pty" THEN Err(e) ELSE [e EXCEPT !.sent = @ \o bytes]

\* App::handle_output
PinMutantHandleOutput(app, chunk) ==
    LET cleaned == strip_ansi(chunk.text) IN
    IF cleaned # <<>>
    THEN LET lines == append_output_lines(app.output_lines, cleaned)
             n == Len(app.messages)
         IN  [app EXCEPT
                !.output_lines = lines,
                !.messages = IF n > 0
                             THEN [@ EXCEPT ![n].assistant_text = @ \o cleaned]
                             ELSE @,
                !.output_scroll = SatSub(Len(lines), 1),
                !.dirty = TRUE]
    ELSE app
handle_output(app, chunk) ==
    LET cleaned == strip_ansi(chunk.text) IN
    IF cleaned # <<>>
    THEN LET lines == append_output_lines(app.output_lines, cleaned)
             n == Len(app.messages)
         IN  [app EXCEPT
                !.output_lines = lines,
                !.messages = IF n > 0
                             THEN [@ EXCEPT ![n].assistant_text = @ \o cleaned]
                             ELSE @,
                !.output_scroll = IF app.follow_output
                                  THEN SatSub(Len(lines), 1) ELSE @,
                !.dirty = TRUE]
    ELSE app

\* Database::insert_message (the row; the id is a fresh uuid)
insert_message(e, idx, content) ==
    [e EXCEPT !.uuid = @ + 1,
              !.db.messages = Append(@, [id |-> e.uuid + 1,
                                         session_id |-> e.app.session_id,
                                         idx |-> idx, role |-> "user",
                                         content |-> content])]

\* Database::insert_snapshot
DropMutantInsertSnapshot(e, idx, commit) == [e EXCEPT !.uuid = @ + 1]
insert_snapshot(e, idx, commit) ==
    [e EXCEPT !.uuid = @ + 1,
              !.db.snapshots = Append(@, [id |-> e.uuid + 1,
                                          session_id |-> e.app.session_id,
                                          idx |-> idx, commit |-> commit])]

\* The idx record_user_message gives the next prompt
IdxMutantNextIdx(messages) == Len(messages)
NextIdx(messages) == Len(messages) + 1

\* App::record_user_message
record_user_message(e, content, output_line, fail) ==
    LET idx == NextIdx(e.app.messages) IN
    IF fail.at = "db" THEN Err(e)
    ELSE LET e1 == insert_message(e, idx, content)
             message_id == e1.uuid
             entry == [id |-> message_id, idx |-> idx, content |-> content,
                       output_line |-> output_line, assistant_text |-> <<>>,
                       snapshot_commit |-> None]
             msgs == Append(e.app.messages, entry)
         IN  [e1 EXCEPT !.app.messages = msgs,
                        !.app.selected_message = SatSub(Len(msgs), 1),
                        !.jobs = Append(@, [message_id |-> message_id,
                                            message_idx |-> idx])]

\* messages.iter_mut().find(|m| m.id == res.message_id): the positions found
FindMutantFindMessage(messages, message_id) == 1..Len(messages)
FindMessage(messages, message_id) ==
    LET hits == {i \in 1..Len(messages) : messages[i].id = message_id} IN
    IF hits = {} THEN {} ELSE {CHOOSE i \in hits : \A j \in hits : i <= j}

\* App::update_snapshot
SkipMutantUpdateSnapshot(e, res, fail) == e
LastMutantUpdateSnapshot(e, res, fail) ==
    \* the commit goes to the newest prompt, whatever the id
    LET n == Len(e.app.messages) IN
    IF n > 0 /\ IsSome(res.commit)
    THEN insert_snapshot([e EXCEPT !.app.messages[n].snapshot_commit = res.commit],
                         e.app.messages[n].idx, Unwrap(res.commit))
    ELSE e
update_snapshot(e, res, fail) ==
    LET found == FindMessage(e.app.messages, res.message_id) IN
    IF found # {} /\ IsSome(res.commit)
    THEN LET commit == Unwrap(res.commit)
             e1 == [e EXCEPT !.app.messages =
                       [i \in 1..Len(@) |->
                           IF i \in found
                           THEN [@[i] EXCEPT !.snapshot_commit = Some(commit)]
                           ELSE @[i]]]
             idx == e.app.messages[CHOOSE i \in found : TRUE].idx
         IN  IF fail.at = "db" THEN Err(e1)
             ELSE insert_snapshot(e1, idx, commit)
    ELSE e

\* run_git on the calling thread: spawn git, wait_with_output
run_git(e, args) == [e EXCEPT !.git = Append(@, args)]

\* The git commands of a call of restore that went as far as r.at
RestoreGit(e, r) ==
    IF r.at \in {"diff", "mkdir", "copy"} THEN run_git(e, "diff --name-status")
    ELSE run_git(run_git(e, "diff --name-status"), "checkout")

\* open_diff_preview
open_diff_preview(e, commit, pending_restore, fail) ==
    IF fail.at = "diff" THEN Err(run_git(e, "diff"))
    ELSE LET diff == diff_preview(e.commits, commit, e.index, e.ws)
             lines == IF diff = <<>> THEN << "(no changes)" >> ELSE diff
         IN  [run_git(e, "diff") EXCEPT !.app.diff_preview =
                 Some([title |-> commit, lines |-> lines, scroll |-> 0,
                       pending_restore |-> IF pending_restore
                                           THEN Some(commit) ELSE None])]

\* The store as restore sees it, and back
StoreOf(e) == [ws |-> e.ws, index |-> e.index, commits |-> e.commits,
               backup |-> e.backup, ok |-> TRUE, at |-> "none"]

\* handle_diff_keys: only key.code is matched
handle_diff_keys(key, e, same_second, fail) ==
    LET preview == Unwrap(e.app.diff_preview)
        close == [e EXCEPT !.app.diff_preview = None]
        scrollTo(n) == [e EXCEPT !.app.diff_preview = Some([preview EXCEPT !.scroll = n])]
    IN  IF key.code = "Esc" THEN close
        ELSE IF IsChar(key, "q") THEN close
        ELSE IF key.code = "Up" THEN scrollTo(SatSub(preview.scroll, 1))
        ELSE IF key.code = "Down"
        THEN scrollTo(Min(preview.scroll + 1, SatSub(Len(preview.lines), 1)))
        ELSE IF key.code = "PageUp" THEN scrollTo(SatSub(preview.scroll, 10))
        ELSE IF key.code = "PageDown"
        THEN scrollTo(Min(preview.scroll + 10, SatSub(Len(preview.lines), 1)))
        ELSE IF IsChar(key, "y")
        THEN IF IsSome(preview.pending_restore)
             THEN LET commit == Unwrap(preview.pending_restore)
                      r == restore(commit, StoreOf(e), same_second, fail)
                      e1 == [RestoreGit(e, r) EXCEPT
                                      !.ws = r.ws, !.index = r.index,
                                      !.backup = r.backup,
                                      !.restored = Append(@,
                                          [commit |-> commit, ok |-> r.ok,
                                           at |-> r.at,
                                           changed |-> r.ws # e.ws])]
                  IN  IF r.ok THEN [e1 EXCEPT !.app.diff_preview = None]
                      ELSE Err(e1)
             ELSE close
        ELSE IF IsChar(key, "n") THEN close
        ELSE e

\* The arms of handle_key_event for Enter
KeyEnter(e, fail) ==
    IF e.app.focus = "History"
    THEN IF e.app.selected_message < Len(e.app.messages)
         THEN [e EXCEPT !.app.output_scroll =
                            e.app.messages[e.app.selected_message + 1].output_line,
                        !.app.follow_output = FALSE]
         ELSE e
    ELSE LET e1 == send_bytes(e, <<CR>>, fail) IN
         IF e1.ret = "err" THEN e1
         ELSE LET content == trim_end(e.app.input_buffer)
                  e2 == IF content # <<>>
                        THEN record_user_message(e1, content,
                                 SatSub(Len(e.app.output_lines), 1), fail)
                        ELSE e1
              IN  IF e2.ret = "err" THEN e2
                  ELSE [e2 EXCEPT !.app.input_buffer = <<>>]

\* The arms for Char('d') (pending_restore = FALSE) and Char('r') (TRUE)
ArmMutantKeyDiff(e, pending_restore, fail) ==
    IF e.app.focus = "History" /\ e.app.selected_message < Len(e.app.messages)
    THEN LET msg == e.app.messages[e.app.selected_message + 1] IN
         IF IsSome(msg.snapshot_commit)
         THEN open_diff_preview(e, Unwrap(msg.snapshot_commit), TRUE, fail)
         ELSE e
    ELSE e
KeyDiff(e, pending_restore, fail) ==
    IF e.app.focus = "History" /\ e.app.selected_message < Len(e.app.messages)
    THEN LET msg == e.app.messages[e.app.selected_message + 1] IN
         IF IsSome(msg.snapshot_commit)
         THEN open_diff_preview(e, Unwrap(msg.snapshot_commit), pending_restore, fail)
         ELSE e
    ELSE e

\* An arm that only forwards bytes in Output focus
Forward(e, bytes, fail) ==
    IF e.app.focus = "Output" THEN send_bytes(e, bytes, fail) ELSE e

\* handle_key_event: the arms in the order of the match
handle_key_event(key, e, same_second, fail) ==
    IF IsSome(e.app.diff_preview)
    THEN handle_diff_keys(key, e, same_second, fail)
    ELSE IF IsChar(key, "q") /\ key.mods = "CONTROL" THEN [e EXCEPT !.ret = "true"]
    ELSE IF key.code = "Tab"
    THEN [e EXCEPT !.app.focus = IF @ = "Output" THEN "History" ELSE "Output"]
    ELSE IF key.code = "Up"
    THEN IF e.app.focus = "History"
         THEN [e EXCEPT !.app.selected_message = IF @ > 0 THEN @ - 1 ELSE @]
         ELSE send_bytes(e, <<ESC, LBRACKET, Ch("A")>>, fail)
    ELSE IF key.code = "Down"
    THEN IF e.app.focus = "History"
         THEN [e EXCEPT !.app.selected_message =
                            IF @ + 1 < Len(e.app.messages) THEN @ + 1 ELSE @]
         ELSE send_bytes(e, <<ESC, LBRACKET, Ch("B")>>, fail)
    ELSE IF key.code = "Left" THEN Forward(e, <<ESC, LBRACKET, Ch("D")>>, fail)
    ELSE IF key.code = "Right" THEN Forward(e, <<ESC, LBRACKET, Ch("C")>>, fail)
    ELSE IF key.code = "PageUp"
    THEN [e EXCEPT !.app.follow_output = FALSE,
                   !.app.output_scroll = SatSub(@, 10)]
    ELSE IF key.code = "PageDown"
    THEN [e EXCEPT !.app.output_scroll =
                       Min(@ + 10, SatSub(Len(e.app.output_lines), 1))]
    ELSE IF key.code = "End"
    THEN [e EXCEPT !.app.follow_output = TRUE,
                   !.app.output_scroll = SatSub(Len(e.app.output_lines), 1)]
    ELSE IF key.code = "Enter" THEN KeyEnter(e, fail)
    ELSE IF IsChar(key, "d") THEN KeyDiff(e, FALSE, fail)
    ELSE IF IsChar(key, "r") THEN KeyDiff(e, TRUE, fail)
    ELSE IF key.code = "Backspace"
    THEN IF e.app.focus = "Output"
         THEN send_bytes([e EXCEPT !.app.input_buffer =
                              IF @ = <<>> THEN @ ELSE SubSeq(@, 1, Len(@) - 1)],
                         <<DEL>>, fail)
         ELSE e
    ELSE IF key.code = "Char" /\ key.mods = "NONE"
    THEN IF e.app.focus = "Output"
         THEN send_bytes([e EXCEPT !.app.input_buffer = Append(@, key.ch)],
                         Utf8(key.ch), fail)
         ELSE e
    ELSE IF key.code = "Char"
    THEN IF key.mods = "CONTROL"
         THEN Forward(e, <<(key.ch % 256) % 32>>, fail)
         ELSE Forward(e, Utf8(key.ch), fail)
    ELSE e

(***************************************************************************)
(* UsageManager.  A provider is a ProviderState; Local and Manual leave    *)
(* `last` and `last_error` unused.                                         *)
(***************************************************************************)
context_limit == 200000

Provider(kind, name, used, limit) ==
    [kind |-> kind, name |-> name, used |-> used, limit |-> limit,
     last |-> None, last_error |-> None]

\* Config::load without a config file: the one Local provider
DefaultProviders == << Provider("Local", "local-estimate", 0, context_limit) >>

\* A configuration with a Manual provider and two httpjson providers
HttpProviders ==
    << Provider("Manual", "m", 1, 2), Provider("HttpJson", "h1", 0, 0),
       Provider("HttpJson", "h2", 0, 0) >>

\* UsageManager::new
UsageManagerNew(providers) == [providers |-> providers, configs |-> <<>>]

UsageEntry(name, used, limit, status) ==
    [name |-> name, used |-> used, limit |-> limit, status |-> status]

\* fetch_http_usage: Ok(UsageEntry) or Err(String)
FetchOk(name, used, limit) ==
    [ok |-> TRUE, entry |-> UsageEntry(name, Some(used), Some(limit), None),
     err |-> ""]
FetchErr(name, err) ==
    [ok |-> FALSE, entry |-> UsageEntry(name, None, None, None), err |-> err]

\* spawn_pollers: the match on the result of a poll
ForgetMutantStoreResult(p, result) ==
    IF result.ok
    THEN [p EXCEPT !.last = Some(result.entry), !.last_error = None]
    ELSE [p EXCEPT !.last = None, !.last_error = Some(result.err)]
StoreResult(p, result) ==
    IF result.ok
    THEN [p EXCEPT !.last = Some(result.entry), !.last_error = None]
    ELSE [p EXCEPT !.last_error = Some(result.err)]

\* UsageManager::entries
entries(providers, context_tokens) ==
    [i \in 1..Len(providers) |->
        LET p == providers[i] IN
        IF p.kind = "Local"
        THEN UsageEntry(p.name, Some(context_tokens), Some(p.limit), None)
        ELSE IF p.kind = "Manual"
        THEN UsageEntry(p.name, Some(p.used), Some(p.limit), None)
        ELSE IF IsSome(p.last) THEN Unwrap(p.last)
        ELSE UsageEntry(p.name, None, None,
                        IF IsSome(p.last_error) THEN p.last_error
                        ELSE Some("loading"))]

(***************************************************************************)
(* extract_u64.  A serde_json::Value is [kind, n, val, str, items]:        *)
(*   kind   "Null", "Bool", "Number", "String", "Array" or "Object"        *)
(*   n      of a Number, its representation: "PosInt" (a u64), "NegInt"    *)
(*          (a negative i64; val is its magnitude) or "Float" (val is the  *)
(*          value in tenths)                                               *)
(*   str    of a String, its characters                                    *)
(*   items  of an Object, its members [key, value]; of an Array, its       *)
(*          elements with the decimal index as the key                     *)
(* A JSON pointer is the sequence of its reference tokens.                 *)
(***************************************************************************)
JValue(kind, n, val, str, items) ==
    [kind |-> kind, n |-> n, val |-> val, str |-> str, items |-> items]
JNull == JValue("Null", "", 0, <<>>, <<>>)
JBool(b) == JValue("Bool", "", IF b THEN 1 ELSE 0, <<>>, <<>>)
JNumber(n, val) == JValue("Number", n, val, <<>>, <<>>)
JString(str) == JValue("String", "", 0, str, <<>>)
JArray(elems) ==
    JValue("Array", "", 0, <<>>,
           [i \in 1..Len(elems) |-> [key |-> <<47 + i>>, value |-> elems[i]]])
JObject(members) == JValue("Object", "", 0, <<>>, members)
Member(key, value) == [key |-> key, value |-> value]

\* Value::pointer: None when a token names no member or element
RECURSIVE Pointer(_, _)
Pointer(value, tokens) ==
    IF tokens = <<>> THEN Some(value)
    ELSE LET hits == {i \in 1..Len(value.items) : value.items[i].key = Head(tokens)}
         IN  IF hits = {} THEN None
             ELSE Pointer(value.items[CHOOSE i \in hits : TRUE].value, Tail(tokens))

IsDigit(c) == c >= 48 /\ c <= 57
AllDigits(str) == str # <<>> /\ \A i \in 1..Len(str) : IsDigit(str[i])

RECURSIVE DecimalValue(_)
DecimalValue(str) ==
    IF str = <<>> THEN 0
    ELSE 10 * DecimalValue(SubSeq(str, 1, Len(str) - 1)) + (str[Len(str)] - 48)

\* Result<u64, String>
OkU64(v) == [ok |-> TRUE, val |-> v, err |-> ""]
ErrU64(err) == [ok |-> FALSE, val |-> 0, err |-> err]

\* str::parse::<u64>: an optional '+' and then digits.  (The strings of the
\* model are too short to exceed u64::MAX.)
ParseU64(str) ==
    LET digits == IF str # <<>> /\ str[1] = 43 THEN Tail(str) ELSE str
    IN  IF AllDigits(digits) THEN OkU64(DecimalValue(digits)) ELSE ErrU64("not u64")

\* Number::as_u64
AsU64(node) == IF node.n = "PosInt" THEN OkU64(node.val) ELSE ErrU64("not u64")

extract_u64(value, pointer) ==
    LET found == Pointer(value, pointer) IN
    IF found = None THEN ErrU64("missing")
    ELSE LET node == Unwrap(found) IN
         IF node.kind = "Number" THEN AsU64(node)
         ELSE IF node.kind = "String" THEN ParseU64(node.str)
         ELSE ErrU64("not u64")

(***************************************************************************)
(* State.                                                                  *)
(***************************************************************************)
VARIABLES
    app,              \* struct App
    db,               \* the session log's rows
    pty_sent,         \* bytes written to the PTY by the last key handler
    loop_pc,          \* run_app: "poll" (in event::poll); after its return
                      \* "quit" (Ok) or "failed" (Err)
    output_rx,        \* channel PTY reader -> engine loop
    snapshot_job_rx,  \* channel engine loop -> snapshot worker
    snapshot_rx,      \* channel snapshot worker -> engine loop
    worker,           \* snapshot worker: [pc, job]
    ws,               \* the workspace's files
    index,            \* the store's index
    commits,          \* the store's commits
    backup,           \* the backup subdirectories
    uuid,             \* identifiers produced so far
    child_alive,      \* the child agent has not exited
    usage,            \* UsageManager: the providers behind the mutex, and
                      \* the poller thread's position in its round
    call,             \* the frame of a helper function examined on its
                      \* own: [fn, arg, ret], ret None until it returns
    term,             \* the terminal and the PTY: the terminal's size, the
                      \* Resize events not yet read, run_app's last_left
                      \* and the PTY's dimensions
    hist              \* history, read by the properties only

vars == <<app, db, pty_sent, loop_pc, output_rx, snapshot_job_rx, snapshot_rx,
          worker, ws, index, commits, backup, uuid, child_alive, usage, call,
          term, hist>>

\* The workspace when the session starts
InitWs == [p \in Files |-> IF p = "f" THEN 1 ELSE 0]

\* App::new, and main up to run_app
InitApp ==
    [session_id |-> "s1", messages |-> <<>>, output_lines |-> << <<>> >>,
     output_scroll |-> 0, follow_output |-> TRUE, input_buffer |-> <<>>,
     focus |-> "Output", selected_message |-> 0, diff_preview |-> None,
     dirty |-> FALSE]

InitHist(providers, output_lines) ==
    [chunks |-> 0,          \* chunks the reader has forwarded
     chunk_after |-> <<>>,  \* per chunk: prompts submitted when it was read
     enq_ws |-> <<>>,       \* per job not yet committed, in order: the
                            \* workspace when the job was enqueued
     as_enqueued |-> <<>>,  \* per commit: its tree is that workspace
     jobs |-> <<>>,         \* every job sent, in order
     results |-> <<>>,      \* every result sent, in order
     queued_together |-> FALSE,   \* two jobs were in the job channel at once
     restored |-> <<>>,     \* per call of restore(): the call [commit, ok,
                            \* at, changed], the key handled, the modal then
     last_ok |-> [i \in 1..Len(providers) |-> None],
                            \* per provider: the entry of its last
                            \* successful poll
     last_poll |-> [i \in 1..Len(providers) |-> None],
                            \* per provider: the result of its last poll
     lines |-> output_lines,      \* every output line, evicted or not
     appends |-> 0,         \* chunks appended by AppendLines
     chunk_chars |-> 0,     \* characters of the chunks appended by AppendLines
     resized |-> 0]         \* times the terminal was resized

\* The terminal's sizes, the first being the size when the session starts
InitSize == [cols |-> 100, rows |-> 24]
TermSizes == {InitSize, [cols |-> 50, rows |-> 40]}

\* Layout::default().direction(Horizontal)
\*     .constraints([Percentage(68), Percentage(32)]).split(size)[0]
\* (the widths of TermSizes make 68% a whole number of cells)
Left(size) ==
    [x |-> 0, y |-> 0, width |-> (size.cols * 68) \div 100, height |-> size.rows]

\* run_app at its first event::poll: the first iteration found
\* left != Rect::default() and resized the PTY, opened as 80 x 24, to the
\* left pane's inner size
InitTerm ==
    [size |-> InitSize, events |-> <<>>, last_left |-> Left(InitSize),
     pty |-> [cols |-> SatSub(Left(InitSize).width, 2),
              rows |-> SatSub(Left(InitSize).height, 2)]]

\* No helper function is examined on its own
NoCall == [fn |-> "none", arg |-> <<>>, ret |-> None]
Call(fn, arg) == [fn |-> fn, arg |-> arg, ret |-> None]

\* main up to run_app, with the providers of the configuration, and the
\* helper call examined
InitFrom(providers, output_lines, c) ==
    /\ app = [InitApp EXCEPT
                 !.output_lines = output_lines,
                 \* follow_output: the offset is the last line's
                 !.output_scroll = SatSub(Len(output_lines), 1)]
    /\ db = [messages |-> <<>>, snapshots |-> <<>>]
    /\ pty_sent = <<>>
    /\ loop_pc = "poll"
    /\ output_rx = <<>>
    /\ snapshot_job_rx = <<>>
    /\ snapshot_rx = <<>>
    /\ worker = [pc |-> "recv", job |-> None]
    /\ ws = InitWs
    /\ index = EmptyTree
    /\ commits = <<>>
    /\ backup = <<>>
    /\ uuid = 0
    /\ child_alive = TRUE
    /\ usage = UsageManagerNew(providers)
    /\ call = c
    /\ term = InitTerm
    /\ hist = InitHist(providers, output_lines)

InitWith(providers, output_lines) == InitFrom(providers, output_lines, NoCall)

\* The helper function of `call` returns v
Return(fn, v) ==
    /\ call.fn = fn /\ call.ret = None
    /\ call' = [call EXCEPT !.ret = Some(v)]
    /\ UNCHANGED <<app, db, pty_sent, loop_pc, output_rx, snapshot_job_rx,
                   snapshot_rx, worker, ws, index, commits, backup, uuid,
                   child_alive, usage, term, hist>>

\* The session with no config file
Init == InitWith(DefaultProviders, InitApp.output_lines)

Running == loop_pc \notin {"quit", "failed"}

\* The engine thread's view of the state, for a handler
EngineOf(a) ==
    [app |-> a, db |-> db, sent |-> <<>>, jobs |-> snapshot_job_rx,
     uuid |-> uuid, ws |-> ws, index |-> index, commits |-> commits,
     backup |-> backup, restored |-> <<>>, git |-> <<>>, ret |-> "false",
     term |-> term, draws |-> 0, resizes |-> <<>>]

NoFail == [at |-> "none", k |-> {}]
Fail(at) == [at |-> at, k |-> {}]

(***************************************************************************)
(* run_app.  One action is one turn of the loop, taken from the return of  *)
(* event::poll to the next call of it: the event's handler, then the top   *)
(* of the next iteration (the draw and the two try_recv loops, which wait  *)
(* for nothing).  Init is the state at the first event::poll.              *)
(***************************************************************************)
RECURSIVE DrainOutput(_, _)
DrainOutput(a, q) ==
    IF q = <<>> THEN a ELSE DrainOutput(handle_output(a, Head(q)), Tail(q))

\* The results loop: [e, rest], stopping at the first Err.  The insert of
\* result number failAt (counting from n) fails.
RECURSIVE DrainSnapshots(_, _, _, _)
DrainSnapshots(e, q, n, failAt) ==
    IF q = <<>> THEN [e |-> e, rest |-> q]
    ELSE LET e1 == update_snapshot(e, Head(q),
                       IF n = failAt THEN Fail("db") ELSE NoFail)
         IN  IF e1.ret = "err" THEN [e |-> e1, rest |-> Tail(q)]
             ELSE DrainSnapshots([e1 EXCEPT !.app.dirty = TRUE],
                                 Tail(q), n + 1, failAt)

\* pty.resize(cols, rows): the call is recorded with the left pane of the
\* terminal's size at that time
PtyResize(e, cols, rows) ==
    [e EXCEPT !.term.pty = [cols |-> cols, rows |-> rows],
              !.resizes = Append(@, [cols |-> cols, rows |-> rows,
                                     pane |-> Left(e.term.size)])]

\* let size = terminal.size()?; let left = ...; if left != last_left { .. }
SizeCheck(e) ==
    LET left == Left(e.term.size) IN
    IF left # e.term.last_left
    THEN [PtyResize(e, SatSub(left.width, 2), SatSub(left.height, 2))
            EXCEPT !.term.last_left = left, !.app.dirty = TRUE]
    ELSE e

\* if app.dirty { terminal.draw(|f| draw_ui(f, app))?; app.dirty = false; }
AlwaysMutantDraw(e) == [e EXCEPT !.app.dirty = FALSE, !.draws = @ + 1]
Draw(e) ==
    IF e.app.dirty THEN [e EXCEPT !.app.dirty = FALSE, !.draws = @ + 1]
    ELSE e

\* The whole top of an iteration:
\* the size check, then if app.dirty { draw; app.dirty = false }
\* while let Ok(chunk) = output_rx.try_recv() { app.handle_output(chunk) }
\* while let Ok(res) = snapshot_rx.try_recv() { app.update_snapshot(db, res)?; .. }
\* The result is [e, rest]: the engine's state and the results left unread.
LoopTop(e, failAt) ==
    LET sized == SizeCheck(e)
        drawn == Draw(sized)
        a1 == DrainOutput(drawn.app, output_rx)
    IN  DrainSnapshots([drawn EXCEPT !.app = a1], snapshot_rx, 1, failAt)

\* The key submits a prompt / pushes a character / confirms a restore
Submits(key) ==
    /\ ~IsSome(app.diff_preview) /\ key.code = "Enter" /\ app.focus = "Output"
    /\ trim_end(app.input_buffer) # <<>>
Pushes(key) ==
    /\ ~IsSome(app.diff_preview) /\ app.focus = "Output"
    /\ key.code = "Char" /\ key.mods = "NONE"
    /\ ~IsChar(key, "d") /\ ~IsChar(key, "r")
Confirms(key) ==
    /\ IsSome(app.diff_preview) /\ IsChar(key, "y")
    /\ IsSome(Unwrap(app.diff_preview).pending_restore)

\* The turn's effect: h is the handler's result, failAt the failing insert
\* of the results loop that follows it
Turn(h, failAt) ==
    \E t \in {IF h.ret = "false" THEN LoopTop(h, failAt)
                ELSE [e |-> h, rest |-> snapshot_rx]} :
    /\ failAt # 0 => t.e.ret = "err"
    /\ app' = t.e.app
    /\ db' = t.e.db
    /\ pty_sent' = t.e.sent
    /\ snapshot_job_rx' = t.e.jobs
    /\ uuid' = t.e.uuid
    /\ ws' = t.e.ws
    /\ index' = t.e.index
    /\ backup' = t.e.backup
    /\ term' = t.e.term
    /\ output_rx' = IF h.ret = "false" THEN <<>> ELSE output_rx
    /\ snapshot_rx' = t.rest
    /\ loop_pc' = IF t.e.ret = "err" THEN "failed"
                  ELSE IF t.e.ret = "true" THEN "quit" ELSE "poll"

\* The steps of the handler of `key` that can fail in the current state
Fallible(key) ==
    IF IsSome(app.diff_preview)
    THEN IF Confirms(key) THEN {"diff", "mkdir", "copy", "checkout"} ELSE {}
    ELSE IF app.focus = "History"
    THEN IF IsChar(key, "d") \/ IsChar(key, "r") THEN {"diff"} ELSE {}
    ELSE (IF child_alive THEN {} ELSE {"pty"})
             \cup (IF Submits(key) THEN {"db"} ELSE {})

\* event::poll returned true and event::read() a key event
LoopPollKey(key, same_second, fail, failAt) ==
    /\ Running /\ loop_pc = "poll"
    /\ Submits(key) => Len(app.messages) < MaxPrompts
    /\ Pushes(key) => Len(app.input_buffer) < MaxInput
    /\ Confirms(key) => Len(hist.restored) < MaxRestores
    /\ fail.at \in Fallible(key) \cup {"none"}
    /\ same_second => Confirms(key) /\ backup # <<>>
    /\ failAt <= Len(snapshot_rx)
    /\ \E h \in {handle_key_event(key, EngineOf([app EXCEPT !.dirty = TRUE]),
                                    same_second, fail)} :
       /\ fail.at # "none" => h.ret = "err"
       /\ Turn(h, failAt)
       /\ hist' = [hist EXCEPT
                     !.enq_ws = IF Len(h.jobs) > Len(snapshot_job_rx)
                                THEN Append(@, ws) ELSE @,
                     !.jobs = IF Len(h.jobs) > Len(snapshot_job_rx)
                              THEN Append(@, h.jobs[Len(h.jobs)]) ELSE @,
                     !.queued_together = @ \/ Len(h.jobs) >= 2,
                     !.restored = @ \o
                         [i \in 1..Len(h.restored) |->
                             [call |-> h.restored[i], key |-> key,
                              modal |-> app.diff_preview]]]
    /\ UNCHANGED <<call, usage, worker, commits, child_alive>>

\* event::poll timed out, or the event was neither a key nor a resize
LoopPollTimeout(failAt) ==
    /\ Running /\ loop_pc = "poll"
    /\ failAt <= Len(snapshot_rx)
    /\ Turn(EngineOf(app), failAt)
    /\ UNCHANGED <<call, usage, worker, commits, child_alive, hist>>

\* Event::Resize(cols, rows) => { pty.resize(cols, rows); app.dirty = true; }
ResizeEvent(e, cols, rows) ==
    [PtyResize(e, cols, rows) EXCEPT !.app.dirty = TRUE,
                                     !.term.events = Tail(@)]

\* event::poll returned true and event::read() the oldest Resize event
LoopPollResize ==
    /\ Running /\ loop_pc = "poll"
    /\ term.events # <<>>
    /\ Turn(ResizeEvent(EngineOf(app), Head(term.events).cols,
                        Head(term.events).rows), 0)
    /\ UNCHANGED <<call, usage, worker, commits, child_alive, hist>>

\* The user resizes the terminal window: the terminal has the new size and
\* queues a Resize event that carries it
TerminalResized(size) ==
    /\ Running
    /\ hist.resized < MaxResizes
    /\ size # term.size
    /\ term' = [term EXCEPT !.size = size, !.events = Append(@, size)]
    /\ hist' = [hist EXCEPT !.resized = @ + 1]
    /\ UNCHANGED <<app, db, pty_sent, loop_pc, output_rx, snapshot_job_rx,
                   snapshot_rx, worker, ws, index, commits, backup, uuid,
                   child_alive, usage, call>>

(***************************************************************************)
(* The PTY reader thread and the child agent.                              *)
(***************************************************************************)
\* The texts chunk number n may carry: a CSI sequence and a printable
\* character that names the chunk
ChunkTexts(n) == { <<ESC, LBRACKET, Ch("m"), 48 + n>> }

\* reader.read returned n > 0 bytes: output_tx.send(OutputChunk { text })
ReaderSend(text) ==
    /\ Running /\ child_alive
    /\ hist.chunks < MaxChunks
    /\ output_rx' = Append(output_rx, [text |-> text])
    /\ hist' = [hist EXCEPT !.chunks = @ + 1,
                            !.chunk_after = Append(@, Len(app.messages))]
    /\ UNCHANGED <<term, call, usage, app, db, pty_sent, loop_pc, snapshot_job_rx, snapshot_rx,
                   worker, ws, index, commits, backup, uuid, child_alive>>

\* The child agent writes (c # 0) or deletes (c = 0) a workspace file
ChildWrite(p, c) ==
    /\ Running /\ child_alive
    /\ app.messages # <<>>          \* the agent acts on a prompt
    /\ ws[p] # c
    /\ ws' = [ws EXCEPT ![p] = c]
    /\ UNCHANGED <<term, call, usage, app, db, pty_sent, loop_pc, output_rx, snapshot_job_rx,
                   snapshot_rx, worker, index, commits, backup, uuid,
                   child_alive, hist>>

\* The child agent exits
ChildExit ==
    /\ Running /\ child_alive
    /\ child_alive' = FALSE
    /\ UNCHANGED <<term, call, usage, app, db, pty_sent, loop_pc, output_rx, snapshot_job_rx,
                   snapshot_rx, worker, ws, index, commits, backup, uuid, hist>>

(***************************************************************************)
(* spawn_snapshot_worker: the worker thread.                               *)
(***************************************************************************)
\* rx.recv(): the job received and the jobs left
LifoMutantRecv(q) == [job |-> q[Len(q)], rest |-> SubSeq(q, 1, Len(q) - 1)]
Recv(q) == [job |-> Head(q), rest |-> Tail(q)]

\* tx.send(res); `committed` says that the job made a commit
SendResult(message_id, commit, committed) ==
    LET res == [message_id |-> message_id, commit |-> commit] IN
    /\ snapshot_rx' = Append(snapshot_rx, res)
    /\ hist' = [hist EXCEPT
                  !.results = Append(@, res),
                  !.enq_ws = Tail(@),
                  !.as_enqueued = IF committed
                                  THEN Append(@, index = Head(hist.enq_ws))
                                  ELSE @]

\* rx.recv() and SnapshotManager::snapshot's git add.  (The receive is one
\* step with the staging: nothing else reads the job channel.)
WorkerStage(ok) ==
    /\ Running /\ worker.pc = "recv" /\ snapshot_job_rx # <<>>
    /\ snapshot_job_rx' = Recv(snapshot_job_rx).rest
    /\ LET job == Recv(snapshot_job_rx).job IN
       IF ok
       THEN /\ index' = GitAddAll(ws)
            /\ worker' = [pc |-> "commit", job |-> Some(job)]
            /\ UNCHANGED <<snapshot_rx, hist>>
       ELSE /\ SendResult(job.message_id, None, FALSE)
            /\ worker' = [pc |-> "recv", job |-> None]
            /\ UNCHANGED index
    /\ UNCHANGED <<term, call, usage, app, db, pty_sent, loop_pc, output_rx, ws,
                   commits, backup, uuid, child_alive>>

\* SnapshotManager::snapshot, git commit and git rev-parse HEAD, and the send
WorkerCommit(outcome) ==
    /\ Running /\ worker.pc = "commit"
    /\ LET job == Unwrap(worker.job)
           cs == GitCommit(commits, index, job.message_idx)
       IN  /\ commits' = IF outcome = "commit_fails" THEN commits ELSE cs
           /\ SendResult(job.message_id,
                         IF outcome = "ok" THEN Some(GitRevParseHead(cs)) ELSE None,
                         outcome # "commit_fails")
    /\ worker' = [pc |-> "recv", job |-> None]
    /\ UNCHANGED <<term, call, usage, app, db, pty_sent, loop_pc, output_rx, snapshot_job_rx, ws,
                   index, backup, uuid, child_alive>>

(***************************************************************************)
(* spawn_pollers: the poller thread.                                       *)
(***************************************************************************)
\* The top of the poller's loop: the positions of the httpjson providers
PollerRound ==
    /\ Running /\ usage.configs = <<>>
    /\ LET idxs == SelectSeq([i \in 1..Len(usage.providers) |-> i],
                             LAMBDA i : usage.providers[i].kind = "HttpJson")
       IN  /\ idxs # <<>>
           /\ usage' = [usage EXCEPT !.configs = idxs]
    /\ UNCHANGED <<term, call, app, db, pty_sent, loop_pc, output_rx, snapshot_job_rx,
                   snapshot_rx, worker, ws, index, commits, backup, uuid,
                   child_alive, hist>>

\* What a poll of the provider named `name` may return
FetchResults(name) ==
    {FetchOk(name, used, 2) : used \in {1, 2}}
    \cup {FetchErr(name, err) : err \in {"curl: (28) timeout", "not u64"}}

\* fetch_http_usage(&cfg) for the next provider of the round, and the store
\* of its result under the lock
PollerPoll(result) ==
    /\ Running /\ usage.configs # <<>>
    /\ LET idx == Head(usage.configs) IN
       /\ usage' = [usage EXCEPT
                      !.providers[idx] = StoreResult(@, result),
                      !.configs = Tail(@)]
       /\ hist' = [hist EXCEPT
                     !.last_ok[idx] = IF result.ok THEN Some(result.entry) ELSE @,
                     !.last_poll[idx] = Some(result)]
    /\ UNCHANGED <<term, call, app, db, pty_sent, loop_pc, output_rx, snapshot_job_rx,
                   snapshot_rx, worker, ws, index, commits, backup, uuid,
                   child_alive>>

Poller ==
    \/ PollerRound
    \/ /\ usage.configs # <<>>
       /\ \E result \in FetchResults(usage.providers[Head(usage.configs)].name) :
              PollerPoll(result)

(***************************************************************************)
(* append_output_lines on line buffers near and beyond max_lines.          *)
(***************************************************************************)
\* Line buffers: the initial one, and buffers of max_lines - 1 and max_lines
\* lines, line i holding the character i
LineBuffers ==
    { << <<>> >> }
    \cup { [i \in 1..len |-> <<i>>] : len \in {max_lines - 1, max_lines} }

\* Cleaned chunks: no newline, one, two around a CR, and more newlines than
\* the buffer holds lines
LineChunks ==
    { <<Ch("a")>>, <<Ch("a"), NL, Ch("d")>>, <<NL, CR, NL>>,
      [i \in 1..(max_lines + 1) |-> NL] \o <<Ch("a")>> }

\* handle_output's call append_output_lines(&mut self.output_lines, &cleaned)
AppendLines(chunk) ==
    /\ Running /\ hist.appends < MaxAppends
    /\ app' = [app EXCEPT !.output_lines = append_output_lines(@, chunk)]
    /\ LET parts == SplitNl(RemoveCr(chunk)) IN
       hist' = [hist EXCEPT
                  !.appends = @ + 1,
                  !.chunk_chars = @ + Len(chunk),
                  !.lines = [@ EXCEPT ![Len(@)] = @ \o Head(parts)]
                                \o Tail(parts)]
    /\ UNCHANGED <<term, call, db, pty_sent, loop_pc, output_rx, snapshot_job_rx,
                   snapshot_rx, worker, ws, index, commits, backup, uuid,
                   child_alive, usage>>

(***************************************************************************)
(* The specifications.  Each runs the engine loop and the snapshot worker; *)
(* they differ in what the user and the child agent do.                    *)
(***************************************************************************)
Engine(keys, fails) ==
    \/ \E key \in keys :
         \E fail \in {x \in fails : x.at \in Fallible(key) \cup {"none"}} :
           \E same_second \in {FALSE} \cup {Confirms(key) /\ backup # <<>>} :
             \E failAt \in (IF Fail("db") \in fails THEN 0..Len(snapshot_rx) ELSE {0}) :
               LoopPollKey(key, same_second, fail, failAt)
    \/ \E failAt \in (IF Fail("db") \in fails THEN 0..Len(snapshot_rx) ELSE {0}) :
           LoopPollTimeout(failAt)

Worker(outcomes) ==
    \/ \E ok \in BOOLEAN : (~ok => "add_fails" \in outcomes) /\ WorkerStage(ok)
    \/ \E outcome \in outcomes \ {"add_fails"} : WorkerCommit(outcome)

GitOutcomes == {"ok", "add_fails"}

Reader ==
    \E n \in 1..MaxChunks : \E text \in ChunkTexts(n) :
        n = hist.chunks + 1 /\ ReaderSend(text)

\* Spec: a session in which the user types and submits prompts and moves in
\* the history, and the child agent prints.
SessionKeys ==
    {Key(c) : c \in {"Enter", "Tab"}}
    \cup {CharKey(c, "NONE") : c \in {"a"}}
    \cup {CharKey("q", "CONTROL")}

SessionFails == {Fail(at) : at \in {"none", "db", "pty"}}

Next ==
    \/ Engine(SessionKeys, SessionFails)
    \/ Worker(GitOutcomes)
    \/ Reader
    \/ ChildExit

Spec == Init /\ [][Next]_vars

\* SpecStore: a session in which the user submits prompts, opens diffs and
\* restores, and the child agent writes the workspace.  The
\* user presses y, n, q and Esc where they are not typed into a prompt: in
\* History focus or in a diff modal.  The worker's git commands and the
\* session log's inserts succeed; the engine's git commands and the backup
\* may fail.
StoreKeys ==
    {Key(c) : c \in {"Enter", "Tab", "Up", "Esc"}}
    \cup {CharKey(c, "NONE") : c \in {"a", "d", "r", "y", "n", "q"}}

ModalKeys == {Key("Esc")} \cup {CharKey(c, "NONE") : c \in {"y", "n", "q"}}

StoreFiles == {"f", "g"}         \* the files of a SpecStore session

StoreFails ==
    {Fail(at) : at \in {"none", "diff", "mkdir"}}
    \cup {[at |-> "copy", k |-> {p}] : p \in StoreFiles}
    \cup {[at |-> "checkout", k |-> S] : S \in SUBSET StoreFiles}

\* What the child agent does to a file, as <<path, content before, content
\* after>>: it modifies f and then deletes it, and it creates g with the
\* content f had at first
ChildEdits == {<<"f", 1, 2>>, <<"f", 2, 0>>, <<"g", 0, 1>>}

NextStore ==
    \/ /\ IsSome(app.diff_preview) \/ app.focus = "History"
       /\ Engine(ModalKeys, StoreFails)
    \/ Engine(StoreKeys \ ModalKeys, StoreFails)
    \/ Worker({"ok"})
    \/ \E ed \in ChildEdits : ws[ed[1]] = ed[2] /\ ChildWrite(ed[1], ed[3])

SpecStore == Init /\ [][NextStore]_vars

\* SpecKeys: a session in which the user types, with and without Shift and
\* Ctrl, edits and submits the accumulator and scrolls the output, and the
\* child agent prints lines.  Nothing fails, and the snapshot worker has not
\* yet taken a job from its channel.
TypingKeys ==
    {Key(c) : c \in {"Enter", "Tab", "Backspace", "PageUp", "PageDown", "End"}}
    \cup {CharKey(c, "NONE") : c \in {"a", "d", " "}}
    \cup {CharKey("D", "SHIFT")}
    \cup {CharKey(c, "CONTROL") : c \in {"a", "d", "q"}}

\* The texts chunk number n may carry: its name and more lines than a page
\* scrolls, or only a CSI sequence
Newlines(k) == [i \in 1..k |-> NL]
LineTexts(n) == { <<48 + n>> \o Newlines(11 + n), <<ESC, LBRACKET, Ch("m")>> }

ReaderLines ==
    \E n \in 1..MaxChunks : \E text \in LineTexts(n) :
        n = hist.chunks + 1 /\ ReaderSend(text)

NextKeys ==
    \/ Engine(TypingKeys, {NoFail})
    \/ ReaderLines

SpecKeys == Init /\ [][NextKeys]_vars

\* SpecSnap: a session in which the user submits prompts and every git
\* command of the snapshot worker, and every insert into the session log,
\* may fail.
SnapKeys == {Key("Enter"), CharKey("a", "NONE")}
SnapFails == {NoFail, Fail("db")}
AllGitOutcomes == {"ok", "add_fails", "commit_fails", "revparse_fails"}

NextSnap ==
    \/ Engine(SnapKeys, SnapFails)
    \/ Worker(AllGitOutcomes)

SpecSnap == Init /\ [][NextSnap]_vars

\* SpecUsage: a session configured with httpjson providers, whose polls
\* succeed or fail; the user does nothing but quit.
InitUsage == InitWith(HttpProviders, InitApp.output_lines)

NextUsage ==
    \/ Poller
    \/ Engine({CharKey("q", "CONTROL")}, {NoFail})

SpecUsage == InitUsage /\ [][NextUsage]_vars

\* SpecLines: append_output_lines applied to a line buffer drawn from
\* LineBuffers, with chunks drawn from LineChunks.
InitLines == \E buffer \in LineBuffers : InitWith(DefaultProviders, buffer)

NextLines == \E chunk \in LineChunks : AppendLines(chunk)

SpecLines == InitLines /\ [][NextLines]_vars

\* SpecStrip: strip_ansi applied to a string of at most MaxLen characters
\* over ESC, '[', a CSI parameter byte ('1') and a CSI final byte ('m').
RECURSIVE Strings(_, _)
Strings(alphabet, len) ==
    IF len = 0 THEN {<<>>}
    ELSE Strings(alphabet, len - 1)
         \cup {Append(t, c) : t \in Strings(alphabet, len - 1), c \in alphabet}

StripInputs == Strings({ESC, LBRACKET, 49, Ch("m")}, MaxLen)

InitStrip ==
    \E input \in StripInputs :
        InitFrom(DefaultProviders, InitApp.output_lines, Call("strip_ansi", input))

NextStrip == Return("strip_ansi", strip_ansi(call.arg))

SpecStrip == InitStrip /\ [][NextStrip]_vars

\* SpecTokens: estimate_tokens applied to a text of at most MaxCount
\* characters, or of about 2^24 or 2^25 characters.
TokenInputs ==
    {Repeat(Ch("a"), n) : n \in 0..MaxCount}
    \cup {Repeat(Ch("a"), F32Exact + d) : d \in {-1, 0, 1, 2, 3, 4}}
    \cup {Repeat(Ch("a"), 2 * F32Exact + d) : d \in {1, 2, 3, 4, 5, 6}}

InitTokens ==
    \E text \in TokenInputs :
        InitFrom(DefaultProviders, InitApp.output_lines,
                 Call("estimate_tokens", text))

NextTokens == Return("estimate_tokens", estimate_tokens(call.arg))

SpecTokens == InitTokens /\ [][NextTokens]_vars

\* SpecExtract: extract_u64 applied to a leaf, or to a document
\* {"data": {"used": <leaf>}}, with a pointer to the leaf, to the document,
\* to nothing, to the inner object, below the leaf, or to an array element.
Str(names) == [i \in 1..Len(names) |-> Ch(names[i])]
JsonLeaves ==
    {JNull, JBool(TRUE), JArray(<<JNumber("PosInt", 7)>>), JObject(<<>>)}
    \cup {JNumber("PosInt", v) : v \in {0, 123}}
    \cup {JNumber("NegInt", 1), JNumber("Float", 25)}
    \cup {JString(str) : str \in {<<>>, <<52, 53, 54>>, <<48, 55>>, <<43, 55>>,
                                  <<45, 55>>, <<52, 97>>, <<32, 52>>,
                                  <<50, 46, 53>>}}

JsonDocs ==
    JsonLeaves
    \cup {JObject(<<Member(Str(<<"d">>),
                       JObject(<<Member(Str(<<"a">>), JNumber("PosInt", 1)),
                                 Member(Str(<<"n">>), leaf)>>))>>)
             : leaf \in JsonLeaves}

JsonPointers ==
    {<<>>, <<Str(<<"d">>)>>, <<Str(<<"m">>)>>, <<Str(<<"d">>), Str(<<"n">>)>>,
     <<Str(<<"d">>), Str(<<"n">>), <<48>>>>, <<<<48>>>>}

InitExtract ==
    \E json \in JsonDocs : \E pointer \in JsonPointers :
        InitFrom(DefaultProviders, InitApp.output_lines,
                 Call("extract_u64", [json |-> json, pointer |-> pointer]))

NextExtract ==
    Return("extract_u64", extract_u64(call.arg.json, call.arg.pointer))

SpecExtract == InitExtract /\ [][NextExtract]_vars

\* SpecQuote: a session in which the child agent creates and rewrites the
\* file with the unusual name, and the user submits prompts and restores the
\* selected one.  Nothing fails.
QuoteKeys ==
    {Key(c) : c \in {"Enter", "Tab"}}
    \cup {CharKey(c, "NONE") : c \in {"a", "r", "y"}}

QuoteEdits == {<<"u", 0, 1>>, <<"u", 1, 2>>}

NextQuote ==
    \/ Engine(QuoteKeys, {NoFail})
    \/ Worker({"ok"})
    \/ \E ed \in QuoteEdits : ws[ed[1]] = ed[2] /\ ChildWrite(ed[1], ed[3])

SpecQuote == Init /\ [][NextQuote]_vars

\* SpecLive: a session that goes on: the user types and submits prompts and
\* does not quit, the session log and the PTY do not fail, and a git command
\* of the worker may fail.  The worker thread is a loop blocked in rx.recv(),
\* and the engine loop returns from event::poll after 50 ms at the latest:
\* each takes its next step when it has one.
NextLive ==
    \/ Engine(SnapKeys, {NoFail})
    \/ Worker(AllGitOutcomes)

SpecLive ==
    /\ Init /\ [][NextLive]_vars
    /\ WF_vars(Engine(SnapKeys, {NoFail}))
    /\ WF_vars(Worker(AllGitOutcomes))

\* SpecTerm: a session in which the user resizes the terminal window, types
\* and submits prompts and quits, and the child agent prints.  Nothing
\* fails.
TermKeys == {Key("Enter"), CharKey("a", "NONE"), CharKey("q", "CONTROL")}

\* The texts chunk number n may carry: its name, or only a CSI sequence
TermTexts(n) == { <<48 + n>>, <<ESC, LBRACKET, Ch("m")>> }

ReaderTerm ==
    \E n \in 1..MaxChunks : \E text \in TermTexts(n) :
        n = hist.chunks + 1 /\ ReaderSend(text)

NextTerm ==
    \/ Engine(TermKeys, {NoFail})
    \/ LoopPollResize
    \/ \E size \in TermSizes : TerminalResized(size)
    \/ ReaderTerm
    \/ Worker({"ok"})

SpecTerm == Init /\ [][NextTerm]_vars

\* SpecScroll: a session that starts with the initial line buffer or, the
\* child agent having printed max_lines - 2 line breaks, with one of
\* max_lines - 1 lines; the user submits prompts, scrolls the output and
\* seeks to prompts of the history, and the child agent prints lines.
\* Nothing fails.
ScrollKeys ==
    {Key(c) : c \in {"Enter", "Tab", "Up", "PageUp", "PageDown", "End"}}
    \cup {CharKey("a", "NONE")}

ScrollBuffers == { InitApp.output_lines, [i \in 1..(max_lines - 1) |-> <<>>] }

\* The texts chunk number n may carry: its name and two line breaks
ScrollTexts(n) == { <<48 + n, NL, NL>> }

ReaderScroll ==
    \E n \in 1..MaxChunks : \E text \in ScrollTexts(n) :
        n = hist.chunks + 1 /\ ReaderSend(text)

InitScroll == \E buffer \in ScrollBuffers : InitWith(DefaultProviders, buffer)

\* The user pages up while the offset is less than MaxPageUps pages above
\* the last line
NextScroll ==
    \/ Engine(ScrollKeys \ {Key("PageUp")}, {NoFail})
    \/ /\ app.output_scroll + 10 * MaxPageUps > SatSub(Len(app.output_lines), 1)
       /\ Engine({Key("PageUp")}, {NoFail})
    \/ ReaderScroll

SpecScroll == InitScroll /\ [][NextScroll]_vars

(***************************************************************************)
(* Properties.                                                             *)
(***************************************************************************)
Messages == app.messages
LastRestore == hist.restored[Len(hist.restored)]

\* A step in which the engine called restore(), and the call made
Restores == Len(hist.restored') = Len(hist.restored) + 1
TheRestore == hist.restored'[Len(hist.restored')]

\* C1: the idx values of the prompt list are 1, 2, ..., N in list order, in
\* every reachable state.
C1_IdxSequential ==
    \A i \in 1..Len(Messages) : Messages[i].idx = i

\* Two prompts were submitted, output was attributed and a snapshot result
\* applied.
C1_Witness ==
    /\ Len(Messages) >= 2
    /\ Messages[1].assistant_text # <<>>
    /\ IsSome(Messages[1].snapshot_commit)

\* C2: for every prompt whose snapshot_commit is Some(c), the tree
\* committed as c is the workspace as it was when the prompt's snapshot job
\* was enqueued.
C2_TreeIsWorkspaceAtEnqueue ==
    \A i \in 1..Len(Messages) :
        IsSome(Messages[i].snapshot_commit)
            => hist.as_enqueued[Unwrap(Messages[i].snapshot_commit)]

\* C3: a chunk the reader received after prompt N was submitted and before
\* prompt N+1 was is appended to prompt N's assistant_text and to no other
\* prompt's, also when it is still on the output channel when prompt N+1 is
\* submitted.  (Chunk k carries the character 48 + k.)
InText(k, i) ==
    \E j \in 1..Len(Messages[i].assistant_text) :
        Messages[i].assistant_text[j] = 48 + k
Undrained(k) ==
    \E q \in 1..Len(output_rx) :
        \E j \in 1..Len(output_rx[q].text) : output_rx[q].text[j] = 48 + k

C3_ChunksOfCurrentPrompt ==
    \A k \in 1..hist.chunks :
        hist.chunk_after[k] >= 1 =>
            /\ \A i \in 1..Len(Messages) : InText(k, i) => i = hist.chunk_after[k]
            /\ ~Undrained(k) => InText(k, hist.chunk_after[k])

\* C4: after a successful restore of commit C, every path of C's tree exists
\* in the workspace with the content it has in C.
C4_RestoreWritesTree ==
    [][Restores /\ TheRestore.call.ok =>
          \A p \in Files :
              LET tree == commits[TheRestore.call.commit].tree IN
              tree[p] # 0 => ws'[p] = tree[p]]_vars

\* A restore of the first commit succeeded and changed the workspace, after
\* a second snapshot had been committed.
C4_Witness ==
    /\ hist.restored # <<>>
    /\ LastRestore.call.ok /\ LastRestore.call.changed
    /\ LastRestore.call.commit = 1
    /\ Len(commits) >= 2

\* C5: after a successful restore of commit C, no workspace file outside C's
\* tree is left: the workspace's files are those of C's tree.
C5_RestoreRemovesAdded ==
    [][Restores /\ TheRestore.call.ok =>
          \A p \in Files :
              LET tree == commits[TheRestore.call.commit].tree IN
              tree[p] = 0 => ws'[p] = 0]_vars

\* C6: when the backup step of restore fails (creating the backup directory
\* or copying a file), restore returns an error and the workspace's files
\* are as they were.
C6_BackupFailureLeavesWorkspace ==
    [][Restores /\ TheRestore.call.at \in {"mkdir", "copy"} =>
          /\ ~TheRestore.call.ok
          /\ ws' = ws]_vars

\* The copy of a file into the backup directory failed.
C6_Witness ==
    /\ hist.restored # <<>>
    /\ LastRestore.call.at = "copy"

\* C7: restore is called only by the handler of 'y' in a diff modal with
\* pending_restore = Some(c), and with that c; every other step of the
\* engine (among them 'y' in a modal opened with 'd', and 'n', Esc and 'q'
\* in any modal) leaves the workspace's files alone.
C7_RestoreOnlyOnArmedYes ==
    /\ [](IsSome(app.diff_preview) =>
            \A key \in ModalKeys :
                LET h == handle_key_event(key, EngineOf(app), FALSE, NoFail) IN
                (IsChar(key, "y")
                     => ~IsSome(Unwrap(app.diff_preview).pending_restore))
                    => /\ h.app.diff_preview = None
                       /\ h.ws = ws
                       /\ h.restored = <<>>)
    /\ [](~IsSome(app.diff_preview) =>
            LET d == handle_key_event(CharKey("d", "NONE"), EngineOf(app),
                                      FALSE, NoFail)
                r == handle_key_event(CharKey("r", "NONE"), EngineOf(app),
                                      FALSE, NoFail)
            IN  /\ IsSome(d.app.diff_preview) =>
                       Unwrap(d.app.diff_preview).pending_restore = None
                /\ IsSome(r.app.diff_preview) =>
                       IsSome(Unwrap(r.app.diff_preview).pending_restore)
                /\ IsSome(r.app.diff_preview) <=> IsSome(d.app.diff_preview)
                /\ d.ws = ws /\ r.ws = ws
                /\ d.restored = <<>> /\ r.restored = <<>>)
    /\ [][/\ Len(hist.restored') <= Len(hist.restored) + 1
          /\ Restores =>
               /\ IsSome(app.diff_preview)
               /\ Unwrap(app.diff_preview).pending_restore
                      = Some(TheRestore.call.commit)
               /\ IsChar(TheRestore.key, "y")
          /\ ~Restores /\ ws' # ws => app' = app /\ loop_pc' = loop_pc]_vars

\* A restore confirmed with 'y' in an armed modal changed the workspace.
C7_Witness ==
    /\ hist.restored # <<>>
    /\ LastRestore.call.ok /\ LastRestore.call.changed
    /\ IsChar(LastRestore.key, "y")
    /\ IsSome(Unwrap(LastRestore.modal).pending_restore)

\* C8: no runtime failure ends the engine loop: run_app never returns an
\* error.
C8_LoopSurvivesFailures ==
    loop_pc # "failed"

\* C9: no prompt id occurs twice in the prompt list, and a snapshot_commit
\* that is Some(c) stays Some(c).
C9_CommitSetOnce ==
    /\ [](\A i, j \in 1..Len(Messages) :
             Messages[i].id = Messages[j].id => i = j)
    /\ [][\A i \in 1..Len(Messages) :
             IsSome(Messages[i].snapshot_commit)
                 => /\ i <= Len(Messages')
                    /\ Messages'[i].id = Messages[i].id
                    /\ Messages'[i].snapshot_commit = Messages[i].snapshot_commit]_vars

\* Two prompts have their snapshot commits.
C9_Witness ==
    /\ Len(Messages) = 2
    /\ \A i \in 1..2 : IsSome(Messages[i].snapshot_commit)
    /\ Messages[1].snapshot_commit # Messages[2].snapshot_commit

\* C10: the worker handles the jobs in the order they were enqueued: the
\* commits are made in prompt order, and the results are sent in the order
\* of the jobs.
C10_WorkerFifo ==
    /\ \A i, j \in 1..Len(commits) :
           i < j => commits[i].message_idx < commits[j].message_idx
    /\ Len(hist.results) <= Len(hist.jobs)
    /\ \A k \in 1..Len(hist.results) :
           hist.results[k].message_id = hist.jobs[k].message_id
    /\ IsSome(worker.job) =>
           Unwrap(worker.job) = hist.jobs[Len(hist.results) + 1]

\* Two jobs were queued together and both have been handled.
C10_Witness ==
    /\ Len(hist.results) >= 2
    /\ Len(commits) >= 2
    /\ hist.queued_together

\* A key event handled with no failing step, and the state it is handled in
Handled(key) == handle_key_event(key, EngineOf(app), FALSE, NoFail)
InOutputFocus == Running /\ app.focus = "Output" /\ ~IsSome(app.diff_preview)

C13_EnterSubmitsOnce ==
    /\ [](InOutputFocus =>
            LET h == Handled(Key("Enter"))
                content == trim_end(app.input_buffer)
                n == Len(Messages)
            IN  /\ h.sent = <<CR>>
                /\ h.app.input_buffer = <<>>
                /\ content # <<>> =>
                     /\ Len(h.db.messages) = Len(db.messages) + 1
                     /\ h.db.messages[Len(h.db.messages)].content = content
                     /\ h.db.messages[Len(h.db.messages)].idx = n + 1
                     /\ Len(h.app.messages) = n + 1
                     /\ SubSeq(h.app.messages, 1, n) = Messages
                     /\ h.app.messages[n + 1].content = content
                     /\ h.app.selected_message = n
                     /\ h.jobs = Append(snapshot_job_rx,
                                        [message_id |-> h.app.messages[n + 1].id,
                                         message_idx |-> n + 1])
                /\ content = <<>> =>
                     /\ h.db = db
                     /\ h.app.messages = Messages
                     /\ h.app.selected_message = app.selected_message
                     /\ h.jobs = snapshot_job_rx)
    /\ [][Len(Messages') # Len(Messages) =>
            /\ InOutputFocus
            /\ trim_end(app.input_buffer) # <<>>
            /\ pty_sent' = <<CR>>
            /\ Len(Messages') = Len(Messages) + 1
            /\ Len(db'.messages) = Len(db.messages) + 1
            /\ Len(snapshot_job_rx') = Len(snapshot_job_rx) + 1
            /\ app'.input_buffer = <<>>]_vars

\* Enter has submitted a second prompt, and the accumulator is empty again.
C13_Witness ==
    /\ pty_sent = <<CR>>
    /\ Len(Messages) = 2
    /\ app.selected_message = 1
    /\ Len(snapshot_job_rx) = 2
    /\ app.input_buffer = <<>>
\* The snapshots rows written for prompt number idx of the session
SnapshotRows(idx) ==
    {k \in 1..Len(db.snapshots) :
        /\ db.snapshots[k].session_id = app.session_id
        /\ db.snapshots[k].idx = idx}

Entries == entries(usage.providers, 0)
HttpJsonProviders ==
    {i \in 1..Len(usage.providers) : usage.providers[i].kind = "HttpJson"}

\* C15: once a poll of an httpjson provider has succeeded with (u, l),
\* entries() gives used = u and limit = l for it, through later failed
\* polls, until the next successful poll.
C15_LastSuccessKept ==
    \A i \in HttpJsonProviders :
        IsSome(hist.last_ok[i]) =>
            /\ Entries[i].used = Unwrap(hist.last_ok[i]).used
            /\ Entries[i].limit = Unwrap(hist.last_ok[i]).limit

\* The last poll of a provider failed after an earlier one had succeeded.
C15_Witness ==
    \E i \in HttpJsonProviders :
        /\ IsSome(hist.last_ok[i])
        /\ IsSome(hist.last_poll[i]) /\ ~Unwrap(hist.last_poll[i]).ok

\* C16: after a failed poll of an httpjson provider the status of its entry
\* is that poll's error text, whether or not an earlier poll succeeded;
\* after a successful poll the entry has no error status.
C16_StatusIsLastError ==
    \A i \in HttpJsonProviders :
        IsSome(hist.last_poll[i]) =>
            Entries[i].status = IF Unwrap(hist.last_poll[i]).ok THEN None
                                ELSE Some(Unwrap(hist.last_poll[i]).err)
\* C17: with no diff modal open, PageUp and PageDown move the output offset
\* by 10, clamped to 0 .. buffer length - 1, and leave follow mode disabled;
\* End leaves follow mode enabled and the offset at the last line.
C17_PagingDisablesFollow ==
    Running /\ ~IsSome(app.diff_preview) =>
        LET last == SatSub(Len(app.output_lines), 1)
            up == Handled(Key("PageUp")).app
            down == Handled(Key("PageDown")).app
            end == Handled(Key("End")).app
        IN  /\ up.output_scroll = SatSub(app.output_scroll, 10)
            /\ ~up.follow_output
            /\ down.output_scroll = Min(app.output_scroll + 10, last)
            /\ ~down.follow_output
            /\ end.output_scroll = last
            /\ end.follow_output

\* C18: in follow mode the output offset is buffer length - 1 after every
\* processed chunk; with follow mode disabled, processing a chunk leaves the
\* offset as it was.
C18_FollowPinsOffset ==
    /\ app.follow_output => app.output_scroll = Len(app.output_lines) - 1
    /\ \A n \in 1..MaxChunks : \A text \in LineTexts(n) :
         LET a == handle_output(app, [text |-> text]) IN
         IF app.follow_output
         THEN a.output_scroll = Len(a.output_lines) - 1
         ELSE a.output_scroll = app.output_scroll

\* Lines were appended after PageUp had disabled follow mode, and the offset
\* stayed where PageUp left it.
C18_Witness ==
    /\ ~app.follow_output
    /\ hist.chunks = 2 /\ output_rx = <<>>
    /\ app.output_scroll = 2
    /\ Len(app.output_lines) > 13
\* C19: in every reachable state of the interface (Output or History focus;
\* diff modal closed, open, or open and armed) a Ctrl-Q key press makes the
\* engine loop exit.
C19_CtrlQExits ==
    Running => Handled(CharKey("q", "CONTROL")).ret = "true"
\* C20: after any sequence of chunks (one with more than max_lines newlines
\* among them) the line buffer holds at most max_lines lines, and they are
\* the most recent lines, in order.
C20_BufferKeepsNewest ==
    LET n == Len(app.output_lines)
        all == Len(hist.lines)
    IN  /\ n <= max_lines
        /\ n = Min(all, max_lines)
        /\ app.output_lines = SubSeq(hist.lines, all - n + 1, all)

\* A chunk with more than max_lines newlines has been appended to a full
\* buffer, and lines were evicted.
C20_Witness ==
    /\ Len(app.output_lines) = max_lines
    /\ Len(hist.lines) > 2 * max_lines
    /\ hist.appends >= 2
\* The characters of a line list (String::len summed, as the number of
\* <<line, column>> positions), the line break between two lines counted
\* as one character
TotalChars(lines) ==
    Cardinality(UNION {{i} \X (1..Len(lines[i])) : i \in 1..Len(lines)})
        + SatSub(Len(lines), 1)

\* The characters of the lines evicted so far, line breaks included
EvictedChars == TotalChars(hist.lines) - TotalChars(app.output_lines)

\* C21: processing a chunk whose cleaned text has n > 0 characters makes the
\* line buffer's character total the total before, plus n, minus the
\* characters of the lines that append evicted from the front.
C21_BufferGrowsByChunk ==
    [][hist.appends' = hist.appends + 1 =>
          TotalChars(app'.output_lines) =
              TotalChars(app.output_lines)
                  + (hist'.chunk_chars - hist.chunk_chars)
                  - (EvictedChars' - EvictedChars)]_vars
HasEsc(t) == \E i \in 1..Len(t) : t[i] = ESC

\* C22: strip_ansi(strip_ansi(s)) = strip_ansi(s) for every string s, and
\* strip_ansi(s) = s for every s that contains no ESC.
C22_StripIdempotent ==
    call.fn = "strip_ansi" /\ IsSome(call.ret) =>
        /\ strip_ansi(Unwrap(call.ret)) = Unwrap(call.ret)
        /\ ~HasEsc(call.arg) => Unwrap(call.ret) = call.arg

\* strip_ansi has removed a CSI sequence with a parameter byte and kept the
\* character after it.
C22_Witness ==
    /\ call.fn = "strip_ansi"
    /\ call.arg = <<ESC, LBRACKET, 49, Ch("m")>> \/ HasEsc(call.arg)
    /\ IsSome(call.ret)
    /\ Unwrap(call.ret) # <<>>
    /\ Len(Unwrap(call.ret)) + 3 = Len(call.arg)
\* C23: estimate_tokens(s) is the ceiling of (number of characters of s) / 4
\* for every string s, and 0 for the empty string.
C23_EstimateIsCeiling ==
    call.fn = "estimate_tokens" /\ IsSome(call.ret) =>
        LET n == call.arg.count
            est == Unwrap(call.ret)
        IN  /\ 4 * est >= n
            /\ 4 * est < n + 4
            /\ n = 0 => est = 0
\* What the pointer of the call addresses
Addressed == Pointer(call.arg.json, call.arg.pointer)

\* C24: extract_u64 returns the integer value when the pointer addresses a
\* JSON number leaf or a string of decimal digits, and an error when it
\* addresses nothing, an object, an array, a boolean, null, or a string
\* that is not numeric.
C24_ExtractByShape ==
    call.fn = "extract_u64" /\ IsSome(call.ret) =>
        LET ret == Unwrap(call.ret) IN
        IF Addressed = None THEN ~ret.ok
        ELSE LET node == Unwrap(Addressed) IN
             IF node.kind = "Number"
             THEN /\ ret.ok
                  /\ node.n = "PosInt" => ret.val = node.val
             ELSE IF node.kind = "String"
             THEN /\ AllDigits(node.str) =>
                        ret.ok /\ ret.val = DecimalValue(node.str)
                  /\ (\A i \in 1..Len(node.str) :
                          ~IsDigit(node.str[i]) /\ node.str[i] \notin {43, 45, 46})
                        => ~ret.ok
             ELSE ~ret.ok
\* C25: the version store (its index, its commits) is written only by steps
\* of the snapshot worker thread; in particular no step of the engine thread
\* writes it while a snapshot job is between its stage and its commit.
C25_StoreWrittenByWorkerOnly ==
    [][index' # index \/ commits' # commits => worker' # worker]_vars
\* C26: the engine thread runs no git command itself: the handler of every
\* key, 'd' and 'r' in History focus and 'y' in an armed diff modal among
\* them, returns without having run and waited for one.
C26_EngineRunsNoGit ==
    Running => \A key \in StoreKeys : Handled(key).git = <<>>
\* The workspace files a step overwrites or deletes
Destroyed == {p \in Files : ws[p] # 0 /\ ws'[p] # ws[p]}

\* C27: every workspace file that a restore overwrites or deletes is, with
\* its content from before the restore, at the same path in the restore's
\* backup subdirectory: the backup is complete before the first file is
\* touched, and restore destroys no content that is not in it.
C27_BackupBeforeDestroy ==
    [][Restores =>
          \A p \in Destroyed :
              /\ backup' # <<>>
              /\ backup'[Len(backup')][p] = ws[p]]_vars
\* C28: every restore writes its copies into a backup subdirectory of its
\* own, so that the subdirectories of earlier restores stay as they were,
\* also when the clock second is that of the previous restore.
C28_BackupDirPerRestore ==
    Running /\ Confirms(CharKey("y", "NONE")) =>
        \A same_second \in {FALSE} \cup {backup # <<>>} :
            LET h == handle_key_event(CharKey("y", "NONE"), EngineOf(app),
                                      same_second, NoFail)
            IN  /\ Len(h.backup) = Len(backup) + 1
                /\ SubSeq(h.backup, 1, Len(backup)) = backup
\* The prompt of result number k has that result's commit
Applied(k) ==
    \E i \in 1..Len(Messages) :
        /\ Messages[i].id = hist.results[k].message_id
        /\ Messages[i].snapshot_commit = hist.results[k].commit

\* C29: every snapshot job sent gets one result, the k-th result being that
\* of the k-th job; and while the session goes on, a prompt whose job has
\* staged, committed and read the digest c eventually has snapshot_commit =
\* Some(c), also when the workspace is as it was at the previous snapshot.
C29_EveryJobAnswered ==
    /\ [](/\ Len(hist.results) <= Len(hist.jobs)
          /\ \A k \in 1..Len(hist.results) :
                 hist.results[k].message_id = hist.jobs[k].message_id)
    /\ \A k \in 1..MaxPrompts :
           /\ (Len(hist.jobs) >= k) ~> (Len(hist.results) >= k)
           /\ (Len(hist.results) >= k /\ IsSome(hist.results[k].commit))
                  ~> (Len(hist.results) >= k /\ Applied(k))

\* Two prompts were snapshotted with the workspace unchanged between them,
\* and each has its own commit.
C29_Witness ==
    /\ Len(Messages) = 2 /\ Len(commits) = 2
    /\ commits[1].tree = commits[2].tree
    /\ Messages[1].snapshot_commit = Some(1)
    /\ Messages[2].snapshot_commit = Some(2)
\* The results that may be addressed to the prompts of the list, or to none
ResultsFor(messages) ==
    {[message_id |-> id, commit |-> c] :
        id \in {messages[i].id : i \in 1..Len(messages)} \cup {0},
        c \in {None, Some(1), Some(2)}}

\* The engine's state after the results r1 and then r2 were applied
AppliedBoth(r1, r2) ==
    update_snapshot(update_snapshot(EngineOf(app), r1, NoFail), r2, NoFail)

\* The snapshots rows without their generated id
RowSet(rows) ==
    {[session_id |-> rows[k].session_id, idx |-> rows[k].idx,
      commit |-> rows[k].commit] : k \in 1..Len(rows)}

\* C30: two snapshot results addressed to different prompts give, applied in
\* either order, the same prompt list and the same set of snapshots rows;
\* and applying one result changes only the snapshot_commit of the prompt
\* whose id it carries.
C30_ResultsCommute ==
    \A r1 \in ResultsFor(Messages) :
        /\ LET h == update_snapshot(EngineOf(app), r1, NoFail) IN
           /\ Len(h.app.messages) = Len(Messages)
           /\ \A i \in 1..Len(Messages) :
                  /\ [h.app.messages[i] EXCEPT !.snapshot_commit = None]
                         = [Messages[i] EXCEPT !.snapshot_commit = None]
                  /\ Messages[i].id # r1.message_id
                         => h.app.messages[i] = Messages[i]
        /\ \A r2 \in ResultsFor(Messages) :
               r1.message_id # r2.message_id =>
                   /\ AppliedBoth(r1, r2).app.messages
                          = AppliedBoth(r2, r1).app.messages
                   /\ RowSet(AppliedBoth(r1, r2).db.snapshots)
                          = RowSet(AppliedBoth(r2, r1).db.snapshots)

\* The results of two prompts wait on the result channel together, and
\* applying them sets the commit of each.
C30_Witness ==
    /\ Len(snapshot_rx) = 2 /\ Len(Messages) = 2
    /\ snapshot_rx[1].message_id # snapshot_rx[2].message_id
    /\ LET a == AppliedBoth(snapshot_rx[2], snapshot_rx[1]).app.messages IN
       /\ a[1].snapshot_commit = Some(1)
       /\ a[2].snapshot_commit = Some(2)

\* The iteration of the engine loop that follows a poll with no event, a key
\* press, and the oldest Resize event: the state after its try_recv loops
NextIteration(h) == LoopTop(h, 0).e
KeyPress(key) ==
    handle_key_event(key, EngineOf([app EXCEPT !.dirty = TRUE]), FALSE, NoFail)
ResizeRead ==
    ResizeEvent(EngineOf(app), Head(term.events).cols, Head(term.events).rows)

\* The iteration that starts in this state processes a chunk whose cleaned
\* text is not empty, or a snapshot result
Processes ==
    \/ \E i \in 1..Len(output_rx) : strip_ansi(output_rx[i].text) # <<>>
    \/ snapshot_rx # <<>>

\* The left pane is not the one the loop saw last
PaneChanged == Left(term.size) # term.last_left

\* C31: at every poll of the engine loop, the next iteration draws exactly
\* when the dirty flag is set at its draw point (set before, or by its size
\* check), and draws at most once; the flag is clear after the draw and is
\* set again by that iteration exactly when it processes a chunk with
\* non-empty cleaned text or a snapshot result, so that the iteration after
\* it draws; an iteration that follows a key press or a Resize event draws;
\* and with the flag clear, the pane unchanged and nothing to process, the
\* iteration draws nothing and leaves the flag clear.
C31_DrawIffDirty ==
    (Running /\ loop_pc = "poll") =>
        /\ LET t == NextIteration(EngineOf(app)) IN
           /\ t.draws = (IF app.dirty \/ PaneChanged THEN 1 ELSE 0)
           /\ Draw(SizeCheck(EngineOf(app))).app.dirty = FALSE
           /\ t.app.dirty = Processes
           /\ Draw(SizeCheck([t EXCEPT !.draws = 0])).draws
                  = (IF Processes THEN 1 ELSE 0)
        /\ \A key \in TermKeys :
               KeyPress(key).ret = "false" =>
                   NextIteration(KeyPress(key)).draws = 1
        /\ term.events # <<>> => NextIteration(ResizeRead).draws = 1

\* The loop is at a poll with the flag set by a chunk and a snapshot result
\* it processed after its last draw, and a Resize event waits to be read: the
\* next iteration draws once.
C31_Witness ==
    /\ Running /\ loop_pc = "poll" /\ app.dirty
    /\ output_rx = <<>> /\ snapshot_rx = <<>>
    /\ app.output_lines # InitApp.output_lines
    /\ \E i \in 1..Len(Messages) : IsSome(Messages[i].snapshot_commit)
    /\ term.events # <<>>
    /\ NextIteration(EngineOf(app)).draws = 1
    /\ NextIteration(ResizeRead).draws = 1

\* The inner size of a pane: its size minus the 2-cell border
Inner(pane) ==
    [cols |-> SatSub(pane.width, 2), rows |-> SatSub(pane.height, 2)]

\* The pty.resize call passed the inner size of the left pane at that time
PassesInner(resize) ==
    [cols |-> resize.cols, rows |-> resize.rows] = Inner(resize.pane)

\* C32: every pty.resize call made by the loop when it reads a Resize event,
\* and by the iteration that follows, passes the inner size of the left pane
\* at that time; and when the loop is at a poll with every Resize event
\* handled, the PTY has the inner size of the current left pane.
C32_ResizePassesInnerSize ==
    (Running /\ loop_pc = "poll") =>
        /\ term.events # <<>> =>
               \A i \in 1..Len(NextIteration(ResizeRead).resizes) :
                   PassesInner(NextIteration(ResizeRead).resizes[i])
        /\ term.events = <<>> => term.pty = Inner(Left(term.size))

\* A stretch of the child's output stream: a partial line completed later, a
\* line break, and CSI sequences alone and between printable characters
StreamTexts ==
    { <<Ch("a"), Ch("d")>>, <<Ch("a"), NL, Ch("d")>>, <<Ch("a"), CR, NL>>,
      <<ESC, LBRACKET, Ch("m")>>, <<ESC, LBRACKET, 49, Ch("m")>>,
      <<Ch("a"), ESC, LBRACKET, Ch("m"), Ch("d")>> }

\* The ways the PTY reader may split the stretch into two chunks
Splits(s) ==
    { [a |-> SubSeq(s, 1, i), b |-> SubSeq(s, i + 1, Len(s))] :
          i \in 1..(Len(s) - 1) }

\* The engine processes the chunks a and b, and the single chunk a ++ b
Chunked(a, b) ==
    handle_output(handle_output(app, [text |-> a]), [text |-> b])
Whole(s) == handle_output(app, [text |-> s])

\* C33: in every reachable state, for every stretch of output and every
\* split of it into two chunks a and b, processing a and then b gives the
\* same line buffer and the same prompt list (assistant_text included) as
\* processing the single chunk a ++ b.
C33_ChunkingIndependent ==
    \A s \in StreamTexts : \A sp \in Splits(s) :
        /\ Chunked(sp.a, sp.b).output_lines = Whole(s).output_lines
        /\ Chunked(sp.a, sp.b).messages = Whole(s).messages

\* draw_output_panel: the bounds of the slice app.output_lines[start..end]
\* taken for a pane of the given height
OutputSlice(a, height) ==
    LET visible_height == SatSub(height, 2)
        start == SatSub(a.output_scroll, SatSub(visible_height, 1))
    IN  [start |-> start,
         end |-> Min(start + visible_height, Len(a.output_lines))]

\* Heights of the output pane: only a border, one line, the initial terminal
PaneHeights == {2, 3, InitSize.rows}

\* The line buffer is not empty, the offset is an index into it, and the
\* slice of every pane height is within the buffer (start <= end <= len)
ValidOffset(a) ==
    /\ Len(a.output_lines) >= 1
    /\ a.output_scroll < Len(a.output_lines)
    /\ \A height \in PaneHeights :
           /\ OutputSlice(a, height).start <= OutputSlice(a, height).end
           /\ OutputSlice(a, height).end <= Len(a.output_lines)

\* C34: in every reachable state, and in the state every key handler leaves
\* for the draw that follows it, the line buffer is not empty, output_scroll
\* is less than its length, and the slice the output pane takes is within
\* the buffer.
C34_OffsetValid ==
    /\ ValidOffset(app)
    /\ Running /\ loop_pc = "poll" =>
           \A key \in ScrollKeys :
               \A drawn \in {KeyPress(key).app} : ValidOffset(drawn)

\* In History focus the user has sought to the first prompt, whose
\* output_line was captured in a buffer of max_lines - 1 lines before the
\* child's later output evicted lines; the offset is that anchor.
C34_Witness ==
    /\ Len(app.output_lines) = max_lines
    /\ app.focus = "History" /\ ~app.follow_output
    /\ Len(Messages) >= 1
    /\ Messages[1].output_line = max_lines - 2
    /\ Messages[1].assistant_text # <<>>
    /\ app.output_scroll = Messages[1].output_line
====
